---------------------------- MODULE Spec2Model ----------------------------
(***************************************************************************)
(* pdf-compressor-service: the POST /compress handler (handleCompress) and *)
(* the adaptive multi-pass driver (compressAdaptive) of src/server.js.     *)
(*                                                                         *)
(* One behaviour is one request.  The handler is cut at its awaits: the    *)
(* storage download, each Ghostscript run, the stat/rename/unlink that     *)
(* follows a run, the storage upload and the row update.                   *)
(*                                                                         *)
(* Environment: the network calls (download, upload) may return an error   *)
(* or reject; inside the try block of compressAdaptive the tool, the stat  *)
(* of the candidate and the rename of the candidate may fail.  stat and    *)
(* readFile of a file that exists succeed, and unlink of a file that       *)
(* exists removes it (unlink(...).catch swallows any rejection).           *)
(***************************************************************************)
EXTENDS Integers, Sequences, FiniteSets, TLC

\* ------------------------------------------------------------------ bounds
\* byte sizes of the generic family range over 1..MaxBytes
MaxBytes == 3

\* ------------------------------------------------------- program constants
levels == <<"baseline", "aggr72", "aggr50", "ultra36">>
DefaultTargetMaxBytes == 900000
InPath == "in"
OutPaths == <<"out1", "out2", "out3", "out4">>
BestPaths == <<"best1", "best2", "best3", "best4">>
NoPath == "none"
NoVal == -1

\* --------------------------------------------------------- request inputs
Secrets == {"", "s3cret"}
\* the Authorization header: does it start with 'Bearer ', and what follows
\* (or, without the prefix, the whole header)
Headers == [bearer : BOOLEAN, rest : {"", "s3cret", "wrong"}]
\* request bodies as parsed by readJsonBody: null, or an object some of whose
\* fields are undefined
Undefined == "undefined"
Bodies ==
  { [isNull |-> TRUE,  bucket |-> Undefined, name |-> Undefined, path |-> Undefined, overwrite |-> Undefined],
    [isNull |-> FALSE, bucket |-> Undefined, name |-> "a.pdf",   path |-> Undefined, overwrite |-> Undefined],
    [isNull |-> FALSE, bucket |-> "docs",    name |-> Undefined, path |-> Undefined, overwrite |-> Undefined],
    [isNull |-> FALSE, bucket |-> "docs",    name |-> "a.pdf",   path |-> Undefined, overwrite |-> Undefined],
    [isNull |-> FALSE, bucket |-> "docs",    name |-> Undefined, path |-> "a.pdf",   overwrite |-> "true"],
    [isNull |-> FALSE, bucket |-> "docs",    name |-> "a.pdf",   path |-> "b.pdf",   overwrite |-> "false"] }

\* byte budgets the service is configured with, and for each the sizes the
\* stored object and the tool's outputs take
Targets == {2, 500, DefaultTargetMaxBytes}
OriginalSizes(t) ==
  IF t = 500 THEN {400, 1000, 2000}
  ELSE IF t = DefaultTargetMaxBytes THEN {4000000}
  ELSE 1..MaxBytes
OutSizes(t) ==
  IF t = 500 THEN {50, 150, 400, 1000, 1100}
  ELSE IF t = DefaultTargetMaxBytes THEN {500000, 900000, 2500000}
  ELSE 1..MaxBytes

VARIABLES
  SECRET,            \* process.env.PDF_COMPRESSOR_SECRET || ''
  envTarget,         \* process.env.TARGET_MAX_BYTES, NoVal when it is not set
  TARGET_MAX_BYTES,  \* Number(process.env.TARGET_MAX_BYTES || 900000)
  header,            \* req.headers['authorization']
  body,              \* the parsed request body
  stored,            \* byte size of the object in storage
  row,               \* pdf_storage row of the object
  pc,                \* position of the handler
  files,             \* the temp directory: path -> byte size
  originalBytes,     \* inBuf.length
  bestPath, bestBytes, bestLevel, passUsed, i,   \* locals of compressAdaptive
  results,           \* results array of compressAdaptive
  passes,            \* history: one record per tool invocation
  downloads,         \* number of storage downloads started
  uploads,           \* number of storage uploads invoked
  storeWrites,       \* number of writes the storage performed
  rowUpdates,        \* number of updatePdfStorageRow calls
  created,           \* every temp path ever written for this request
  res,               \* the HTTP response, once written
  reqs               \* two overlapping requests on one object (ConcSpec)

vars == <<SECRET, envTarget, TARGET_MAX_BYTES, header, body, stored, row, pc, files,
          originalBytes, bestPath, bestBytes, bestLevel, passUsed, i, results,
          passes, downloads, uploads, storeWrites, rowUpdates, created, res,
          reqs>>

config == <<SECRET, envTarget, TARGET_MAX_BYTES, header, body>>
ladder == <<bestPath, bestBytes, bestLevel, passUsed, i, results, passes>>
effects == <<downloads, uploads, storeWrites, rowUpdates>>

\* ------------------------------------------------------------ file system
NoFiles == [p \in {} |-> 0]
Exists(fs, p) == p \in DOMAIN fs
WriteFile(fs, p, n) == [q \in DOMAIN fs \cup {p} |-> IF q = p THEN n ELSE fs[q]]
Unlink(fs, p) == [q \in DOMAIN fs \ {p} |-> fs[q]]
Rename(fs, a, b) == [q \in (DOMAIN fs \ {a}) \cup {b} |-> IF q = b THEN fs[a] ELSE fs[q]]

\* ---------------------------------------------------------------- helpers
\* variant: no default, the missing value is used as it is
TargetMaxBytesMutNoDefault(env) == env
\* Number(process.env.TARGET_MAX_BYTES || 900000)
TargetMaxBytes(env) == IF env = NoVal THEN DefaultTargetMaxBytes ELSE env

\* downsample(colorDpi, grayDpi, monoDpi, jpegQuality = 60): the values of
\* -dColorImageResolution, -dGrayImageResolution, -dMonoImageResolution, -dJPEGQ
downsample(colorDpi, grayDpi, monoDpi, jpegQuality) ==
  [downsampled |-> TRUE, colorDpi |-> colorDpi, grayDpi |-> grayDpi,
   monoDpi |-> monoDpi, jpegQ |-> jpegQuality]
\* the base argument list carries no downsampling parameter
base == [downsampled |-> FALSE, colorDpi |-> NoVal, grayDpi |-> NoVal,
         monoDpi |-> NoVal, jpegQ |-> NoVal]
\* variant: aggr50 keeps the monochrome resolution of aggr72 and ultra36 its
\* quality factor
buildGsArgsMutFlat(lv) ==
  CASE lv = "baseline" -> base
    [] lv = "aggr72"   -> downsample(72, 72, 200, 55)
    [] lv = "aggr50"   -> downsample(50, 50, 200, 45)
    [] lv = "ultra36"  -> downsample(36, 36, 100, 45)
    [] OTHER           -> base
\* buildGsArgs(level, inPath, outPath): the parameters that depend on the level
buildGsArgs(lv) ==
  CASE lv = "baseline" -> base
    [] lv = "aggr72"   -> downsample(72, 72, 200, 55)
    [] lv = "aggr50"   -> downsample(50, 50, 120, 45)
    [] lv = "ultra36"  -> downsample(36, 36, 100, 35)
    [] OTHER           -> base

\* const token = auth.startsWith('Bearer ') ? auth.slice(7) : ''
Token(h) == IF h.bearer THEN h.rest ELSE ""
\* variant: only the token comparison, without the !SECRET test
AuthorizedMutNoEmptyCheck(secret, h) == Token(h) = secret
\* if (!SECRET || token !== SECRET) return 401
Authorized(secret, h) == ~(secret = "" \/ Token(h) # secret)

Bucket(b) == IF b.isNull THEN Undefined ELSE b.bucket
\* body?.name ?? body?.path
ObjectName(b) ==
  IF b.isNull THEN Undefined
  ELSE IF b.name # Undefined THEN b.name ELSE b.path
\* body?.overwrite !== false
Overwrite(b) == ~(~b.isNull /\ b.overwrite = "false")
BodyOk(b) == Bucket(b) # Undefined /\ ObjectName(b) # Undefined

\* variant: toFixed(2), two decimal digits, in thousandths
RatioMutTwoDigits(best, orig) ==
  LET q0 == best \div orig
      r0 == best % orig
      d1 == (10 * r0) \div orig
      r1 == (10 * r0) % orig
      d2 == (10 * r1) \div orig
      r2 == (10 * r1) % orig
  IN  10 * (100 * q0 + 10 * d1 + d2 + (IF 2 * r2 >= orig THEN 1 ELSE 0))

\* Number((bestBytes / originalBytes).toFixed(3)) in thousandths: three
\* decimal digits of the quotient, rounded half up on the remainder
Ratio(best, orig) ==
  LET q0 == best \div orig
      r0 == best % orig
      d1 == (10 * r0) \div orig
      r1 == (10 * r0) % orig
      d2 == (10 * r1) \div orig
      r2 == (10 * r1) % orig
      d3 == (10 * r2) \div orig
      r3 == (10 * r2) % orig
  IN  1000 * q0 + 100 * d1 + 10 * d2 + d3 + (IF 2 * r3 >= orig THEN 1 ELSE 0)

NoRes == [code |-> 0, ok |-> FALSE, error |-> "", overwrote |-> FALSE,
          original_bytes |-> NoVal, compressed_bytes |-> NoVal, ratio |-> NoVal,
          quality |-> "", pass_used |-> NoVal, hit_target |-> FALSE,
          target_bytes |-> NoVal]
ErrRes(code, err) == [NoRes EXCEPT !.code = code, !.error = err]
NoRow == [status |-> "processing", compressed_size_bytes |-> NoVal,
          compression_ratio |-> NoVal, overwrote |-> FALSE,
          hit_target |-> FALSE, pass_used |-> NoVal]

\* the two requests of the concurrent specification, and a request that has
\* not been received
Reqs == {"A", "B"}
NoReq == [pc |-> "start", originalBytes |-> NoVal, bestBytes |-> NoVal,
          bestFileBytes |-> NoVal, i |-> 0]

\* ------------------------------------------------------------------- Init
Init ==
  /\ SECRET \in Secrets
  /\ envTarget \in Targets \cup {NoVal}
  /\ TARGET_MAX_BYTES = TargetMaxBytes(envTarget)
  /\ header \in Headers
  /\ body \in Bodies
  /\ stored \in OriginalSizes(TARGET_MAX_BYTES)
  /\ row = NoRow
  /\ pc = "start"
  /\ files = NoFiles
  /\ originalBytes = NoVal
  /\ bestPath = NoPath /\ bestBytes = NoVal /\ bestLevel = "" /\ passUsed = 0 /\ i = 0
  /\ results = <<>>
  /\ passes = <<>>
  /\ downloads = 0 /\ uploads = 0 /\ storeWrites = 0 /\ rowUpdates = 0
  /\ created = {}
  /\ res = NoRes
  /\ reqs = [r \in Reqs |-> NoReq]

\* --------------------------------------------------- handleCompress: entry
Unauthorized ==
  /\ pc = "start"
  /\ ~Authorized(SECRET, header)
  /\ res' = ErrRes(401, "unauthorized")
  /\ pc' = "done"
  /\ UNCHANGED <<config, reqs, stored, row, files, originalBytes, ladder, effects, created>>

MissingBucketOrName ==
  /\ pc = "start"
  /\ Authorized(SECRET, header)
  /\ ~BodyOk(body)
  /\ res' = ErrRes(400, "missing bucket or name")
  /\ pc' = "done"
  /\ UNCHANGED <<config, reqs, stored, row, files, originalBytes, ladder, effects, created>>

DownloadFailed ==
  /\ pc = "start"
  /\ Authorized(SECRET, header)
  /\ BodyOk(body)
  /\ downloads' = downloads + 1
  /\ \E err \in {"download_failed", "internal"} : res' = ErrRes(500, err)
  /\ pc' = "done"
  /\ UNCHANGED <<config, reqs, stored, row, files, originalBytes, ladder, uploads,
                 storeWrites, rowUpdates, created>>

\* download, Buffer.from, writeFile(inPath, inBuf)
Download ==
  /\ pc = "start"
  /\ Authorized(SECRET, header)
  /\ BodyOk(body)
  /\ downloads' = downloads + 1
  /\ originalBytes' = stored
  /\ files' = WriteFile(files, InPath, stored)
  /\ created' = created \cup {InPath}
  /\ pc' = "compress"
  /\ UNCHANGED <<config, reqs, stored, row, ladder, uploads, storeWrites, rowUpdates, res>>

\* ------------------------------------------------------- compressAdaptive
level == levels[i + 1]
outPath == OutPaths[i + 1]
nextIn == BestPaths[i + 1]

\* variant: the index is advanced twice, a level is skipped
ContinueMutSkip ==
  /\ i' = i + 2
  /\ pc' = IF i + 2 < Len(levels) THEN "gs" ELSE "ret"
\* variant: the index is not advanced, the same level runs again
ContinueMutNoAdvance ==
  /\ i' = i
  /\ pc' = "gs"

\* for (let i = 0; i < levels.length; i++): the next iteration, or the return
Continue ==
  /\ i' = i + 1
  /\ pc' = IF i + 1 < Len(levels) THEN "gs" ELSE "ret"

\* variant: a caught failure leaves the loop
CaughtMutBreak == pc' = "ret" /\ i' = i

\* catch (e) { console.warn(...) }: continue to next level
Caught == Continue

\* variant: strict comparison with the budget
EarlyStopMutStrict(best) == best < TARGET_MAX_BYTES

\* if (bestBytes <= TARGET_MAX_BYTES) break
EarlyStop(best) == best <= TARGET_MAX_BYTES

StopOrContinue(best) ==
  IF EarlyStop(best) THEN pc' = "ret" /\ i' = i ELSE Continue

SetOutcome(o, n) ==
  [passes EXCEPT ![Len(passes)].outcome = o, ![Len(passes)].outBytes = n]

\* const originalBytes = inBuf.length; bestPath = inPath; bestBytes = size
StartLadder ==
  /\ pc = "compress"
  /\ Exists(files, InPath)
  /\ bestPath' = InPath
  /\ bestBytes' = files[InPath]
  /\ bestLevel' = "original"
  /\ passUsed' = 0
  /\ i' = 0
  /\ results' = <<>>
  /\ pc' = "gs"
  /\ UNCHANGED <<config, reqs, stored, row, files, originalBytes, passes, effects, created, res>>

\* the input file is gone from the shared temp directory before the run
\* starts (removed by another user of /tmp)
InputRemoved ==
  /\ pc = "compress"
  /\ Exists(files, InPath)
  /\ files' = Unlink(files, InPath)
  /\ UNCHANGED <<config, reqs, stored, row, pc, originalBytes, ladder, effects, created, res>>

\* variant: a failed stat of the input counts as size 0 and the ladder runs
StartLadderFailsMutSwallow ==
  /\ pc = "compress"
  /\ ~Exists(files, InPath)
  /\ bestPath' = InPath
  /\ bestBytes' = 0
  /\ bestLevel' = "original"
  /\ passUsed' = 0
  /\ i' = 0
  /\ results' = <<>>
  /\ pc' = "gs"
  /\ UNCHANGED <<config, reqs, stored, row, files, originalBytes, passes, effects, created, res>>

\* fileBytes(inPath) rejects outside the try block: the exception leaves
\* compressAdaptive and the outer catch of handleCompress answers 500
StartLadderFails ==
  /\ pc = "compress"
  /\ ~Exists(files, InPath)
  /\ res' = ErrRes(500, "internal")
  /\ pc' = "done"
  /\ UNCHANGED <<config, reqs, stored, row, files, originalBytes, ladder, effects, created>>

\* variant: a tool failure resets the best to the original input
GsFailsMutLosesProgress ==
  /\ pc = "gs"
  /\ passUsed' = i + 1
  /\ UNCHANGED <<files, created>>
  /\ passes' = Append(passes, [level |-> level, args |-> buildGsArgs(level),
                               input |-> bestPath,
                               bestBefore |-> bestBytes,
                               outcome |-> "failed", outBytes |-> NoVal])
  /\ bestPath' = InPath
  /\ bestBytes' = originalBytes
  /\ bestLevel' = "original"
  /\ Continue
  /\ UNCHANGED <<config, reqs, stored, row, originalBytes, results, effects, res>>

\* runGhostscriptWithLevel rejects: non-zero exit or launch error; the output
\* path may or may not have been written (its size, here 1, is never read)
GsFails ==
  /\ pc = "gs"
  /\ passUsed' = i + 1
  /\ \E partial \in BOOLEAN :
       /\ files' = IF partial THEN WriteFile(files, outPath, 1) ELSE files
       /\ created' = IF partial THEN created \cup {outPath} ELSE created
  /\ passes' = Append(passes, [level |-> level, args |-> buildGsArgs(level),
                               input |-> bestPath,
                               bestBefore |-> bestBytes,
                               outcome |-> "failed", outBytes |-> NoVal])
  /\ Caught
  /\ UNCHANGED <<config, reqs, stored, row, originalBytes, bestPath, bestBytes,
                 bestLevel, results, effects, res>>

\* runGhostscriptWithLevel resolves (exit code 0); the tool normally wrote
\* outPath
GsSucceeds ==
  /\ pc = "gs"
  /\ passUsed' = i + 1
  /\ \/ \E n \in OutSizes(TARGET_MAX_BYTES) :
          /\ files' = WriteFile(files, outPath, n)
          /\ created' = created \cup {outPath}
     \/ UNCHANGED <<files, created>>
  /\ passes' = Append(passes, [level |-> level, args |-> buildGsArgs(level),
                               input |-> bestPath,
                               bestBefore |-> bestBytes,
                               outcome |-> "ran", outBytes |-> NoVal])
  /\ pc' = "stat"
  /\ UNCHANGED <<config, reqs, stored, row, originalBytes, bestPath, bestBytes,
                 bestLevel, i, results, effects, res>>

\* fileBytes(outPath) rejects: caught, continue with the next level
StatFails ==
  /\ pc = "stat"
  /\ ~Exists(files, outPath)
  /\ passes' = SetOutcome("stat_failed", NoVal)
  /\ Caught
  /\ UNCHANGED <<config, reqs, stored, row, files, originalBytes, bestPath, bestBytes,
                 bestLevel, passUsed, results, effects, created, res>>

\* variant: the latest output always replaces the best
BetterMutAlways(outBytes, best) == TRUE
\* variant: an output of equal size replaces the best
BetterMutLeq(outBytes, best) == outBytes <= best

\* if (outBytes < bestBytes)
Better(outBytes, best) == outBytes < best

\* outBytes < bestBytes and the rename succeeds
Improve ==
  /\ pc = "stat"
  /\ Exists(files, outPath)
  /\ LET outBytes == files[outPath] IN
       /\ Better(outBytes, bestBytes)
       /\ results' = Append(results, [level |-> level, outPath |-> outPath, outBytes |-> outBytes])
       /\ bestBytes' = outBytes
       /\ bestLevel' = level
       /\ files' = Rename(files, outPath, nextIn)
       /\ created' = created \cup {nextIn}
       /\ bestPath' = nextIn
       /\ passes' = SetOutcome("improved", outBytes)
       /\ StopOrContinue(outBytes)
  /\ UNCHANGED <<config, reqs, stored, row, originalBytes, passUsed, effects, res>>

\* variant: bestLevel assigned after the rename instead of before it
ImproveRenameFailsMutLabelAfter ==
  /\ pc = "stat"
  /\ Exists(files, outPath)
  /\ LET outBytes == files[outPath] IN
       /\ outBytes < bestBytes
       /\ results' = Append(results, [level |-> level, outPath |-> outPath, outBytes |-> outBytes])
       /\ bestBytes' = outBytes
       /\ passes' = SetOutcome("rename_failed", outBytes)
       /\ Continue
  /\ UNCHANGED <<config, reqs, stored, row, files, originalBytes, bestPath, bestLevel,
                 passUsed, effects, created, res>>

\* outBytes < bestBytes and the rename rejects: bestBytes and bestLevel are
\* already assigned, the catch continues with the next level
ImproveRenameFails ==
  /\ pc = "stat"
  /\ Exists(files, outPath)
  /\ LET outBytes == files[outPath] IN
       /\ Better(outBytes, bestBytes)
       /\ results' = Append(results, [level |-> level, outPath |-> outPath, outBytes |-> outBytes])
       /\ bestBytes' = outBytes
       /\ bestLevel' = level
       /\ passes' = SetOutcome("rename_failed", outBytes)
       /\ Caught
  /\ UNCHANGED <<config, reqs, stored, row, files, originalBytes, bestPath, passUsed,
                 effects, created, res>>

\* not better: unlink(outPath), then the early-stop check
Reject ==
  /\ pc = "stat"
  /\ Exists(files, outPath)
  /\ LET outBytes == files[outPath] IN
       /\ ~Better(outBytes, bestBytes)
       /\ results' = Append(results, [level |-> level, outPath |-> outPath, outBytes |-> outBytes])
       /\ files' = Unlink(files, outPath)
       /\ passes' = SetOutcome("rejected", outBytes)
       /\ StopOrContinue(bestBytes)
  /\ UNCHANGED <<config, reqs, stored, row, originalBytes, bestPath, bestBytes,
                 bestLevel, passUsed, effects, created, res>>

\* ------------------------------------------- handleCompress: after the run
\* variant: upload also when the size is unchanged
ShouldUploadMutLeq(best, orig) == best <= orig

\* const shouldUpload = bestBytes < originalBytes
ShouldUpload(best, orig) == best < orig

\* pass_used of the no-improvement response
NoImprovementPassUsed(used) == 0

NoImprovement ==
  /\ pc = "ret"
  /\ ~ShouldUpload(bestBytes, originalBytes)
  /\ files' = Unlink(files, InPath)
  /\ res' = [code |-> 200, ok |-> TRUE, error |-> "", overwrote |-> FALSE,
             original_bytes |-> originalBytes, compressed_bytes |-> originalBytes,
             ratio |-> 1000, quality |-> "no improvement",
             pass_used |-> NoImprovementPassUsed(passUsed),
             hit_target |-> (originalBytes <= TARGET_MAX_BYTES),
             target_bytes |-> TARGET_MAX_BYTES]
  /\ pc' = "done"
  /\ UNCHANGED <<config, reqs, stored, row, originalBytes, ladder, effects, created>>

\* unlink(inPath); unlink(bestPath)
Cleanup(fs) == Unlink(Unlink(fs, InPath), bestPath)

\* readFile(bestPath), upload resolves without error
UploadOk ==
  /\ pc = "ret"
  /\ ShouldUpload(bestBytes, originalBytes)
  /\ Exists(files, bestPath)
  /\ Overwrite(body)
  /\ uploads' = uploads + 1
  /\ storeWrites' = storeWrites + 1
  /\ stored' = files[bestPath]
  /\ files' = Cleanup(files)
  /\ pc' = "row"
  /\ UNCHANGED <<config, reqs, row, originalBytes, ladder, downloads, rowUpdates, created, res>>

\* upload resolves with up.error (always so when upsert is false, as the
\* object exists)
UploadError ==
  /\ pc = "ret"
  /\ ShouldUpload(bestBytes, originalBytes)
  /\ Exists(files, bestPath)
  /\ uploads' = uploads + 1
  /\ files' = Cleanup(files)
  /\ res' = ErrRes(500, "upload_failed")
  /\ pc' = "done"
  /\ UNCHANGED <<config, reqs, stored, row, originalBytes, ladder, downloads,
                 storeWrites, rowUpdates, created>>

\* upload rejects: the outer catch answers 500 internal, nothing is unlinked
UploadThrows ==
  /\ pc = "ret"
  /\ ShouldUpload(bestBytes, originalBytes)
  /\ Exists(files, bestPath)
  /\ uploads' = uploads + 1
  /\ \/ UNCHANGED <<stored, storeWrites>>
     \/ /\ Overwrite(body)
        /\ stored' = files[bestPath]
        /\ storeWrites' = storeWrites + 1
  /\ res' = ErrRes(500, "internal")
  /\ pc' = "done"
  /\ UNCHANGED <<config, reqs, row, files, originalBytes, ladder, downloads,
                 rowUpdates, created>>

\* updatePdfStorageRow (a database error is only logged), then the 200
UpdateRowAndRespond ==
  /\ pc = "row"
  /\ LET ratio == Ratio(bestBytes, originalBytes)
         hitTarget == bestBytes <= TARGET_MAX_BYTES
     IN
       /\ rowUpdates' = rowUpdates + 1
       /\ \/ row' = [status |-> "done", compressed_size_bytes |-> bestBytes,
                     compression_ratio |-> ratio, overwrote |-> TRUE,
                     hit_target |-> hitTarget, pass_used |-> passUsed]
          \/ row' = row
       /\ res' = [code |-> 200, ok |-> TRUE, error |-> "", overwrote |-> TRUE,
                  original_bytes |-> originalBytes, compressed_bytes |-> bestBytes,
                  ratio |-> ratio, quality |-> bestLevel, pass_used |-> passUsed,
                  hit_target |-> hitTarget, target_bytes |-> TARGET_MAX_BYTES]
  /\ pc' = "done"
  /\ UNCHANGED <<config, reqs, stored, files, originalBytes, ladder, downloads,
                 uploads, storeWrites, created>>

Next ==
  \/ Unauthorized
  \/ MissingBucketOrName
  \/ DownloadFailed
  \/ Download
  \/ InputRemoved
  \/ StartLadder
  \/ StartLadderFails
  \/ GsFails
  \/ GsSucceeds
  \/ StatFails
  \/ Improve
  \/ ImproveRenameFails
  \/ Reject
  \/ NoImprovement
  \/ UploadOk
  \/ UploadError
  \/ UploadThrows
  \/ UpdateRowAndRespond

Spec == Init /\ [][Next]_vars

\* ------------------------------------------- two requests on one object
\* The requests share the storage object and its row; their temp files have
\* unique names and their locals are their own, so each request is cut at
\* its accesses to the storage and once per ladder iteration.

\* what one ladder iteration can bring: the tool or the stat failed, or the
\* candidate has n bytes and, when it is kept, its rename succeeds or fails
Outcomes ==
  {[kind |-> "fail", bytes |-> NoVal]}
    \cup [kind : {"ok", "rename_fail"}, bytes : OutSizes(TARGET_MAX_BYTES)]

\* the loop header after an iteration without break
LoopNext(q) ==
  [q EXCEPT !.i = q.i + 1, !.pc = IF q.i + 1 < Len(levels) THEN "loop" ELSE "ret"]

\* one iteration of the loop of compressAdaptive on the locals q
PassStep(q, o) ==
  IF o.kind = "fail" THEN LoopNext(q)
  ELSE IF Better(o.bytes, q.bestBytes)
       THEN IF o.kind = "rename_fail"
            THEN LoopNext([q EXCEPT !.bestBytes = o.bytes])
            ELSE LET q2 == [q EXCEPT !.bestBytes = o.bytes, !.bestFileBytes = o.bytes]
                 IN  IF EarlyStop(o.bytes) THEN [q2 EXCEPT !.pc = "ret"] ELSE LoopNext(q2)
       ELSE IF EarlyStop(q.bestBytes) THEN [q EXCEPT !.pc = "ret"] ELSE LoopNext(q)

single == <<pc, files, originalBytes, ladder, downloads, uploads, storeWrites,
            rowUpdates, created, res>>

ConcInit ==
  /\ Init
  /\ Authorized(SECRET, header)
  /\ BodyOk(body)
  /\ envTarget = 2

\* download, writeFile, and the entry of compressAdaptive
ConcDownload(r) ==
  /\ reqs[r].pc = "start"
  /\ reqs' = [reqs EXCEPT ![r] = [pc |-> "loop", originalBytes |-> stored,
                                  bestBytes |-> stored, bestFileBytes |-> stored,
                                  i |-> 0]]
  /\ UNCHANGED <<config, stored, row, single>>

ConcDownloadFailed(r) ==
  /\ reqs[r].pc = "start"
  /\ reqs' = [reqs EXCEPT ![r].pc = "done"]
  /\ UNCHANGED <<config, stored, row, single>>

ConcPass(r) ==
  /\ reqs[r].pc = "loop"
  /\ \E o \in Outcomes : reqs' = [reqs EXCEPT ![r] = PassStep(@, o)]
  /\ UNCHANGED <<config, stored, row, single>>

ConcNoImprovement(r) ==
  /\ reqs[r].pc = "ret"
  /\ ~ShouldUpload(reqs[r].bestBytes, reqs[r].originalBytes)
  /\ reqs' = [reqs EXCEPT ![r].pc = "done"]
  /\ UNCHANGED <<config, stored, row, single>>

\* readFile(bestPath) and upload with upsert: the object is replaced by the
\* file at bestPath
ConcUploadOk(r) ==
  /\ reqs[r].pc = "ret"
  /\ ShouldUpload(reqs[r].bestBytes, reqs[r].originalBytes)
  /\ Overwrite(body)
  /\ stored' = reqs[r].bestFileBytes
  /\ reqs' = [reqs EXCEPT ![r].pc = "row"]
  /\ UNCHANGED <<config, row, single>>

\* upload returns up.error or rejects without having written
ConcUploadFails(r) ==
  /\ reqs[r].pc = "ret"
  /\ ShouldUpload(reqs[r].bestBytes, reqs[r].originalBytes)
  /\ reqs' = [reqs EXCEPT ![r].pc = "done"]
  /\ UNCHANGED <<config, stored, row, single>>

\* upload rejects after the storage has written
ConcUploadThrows(r) ==
  /\ reqs[r].pc = "ret"
  /\ ShouldUpload(reqs[r].bestBytes, reqs[r].originalBytes)
  /\ Overwrite(body)
  /\ stored' = reqs[r].bestFileBytes
  /\ reqs' = [reqs EXCEPT ![r].pc = "done"]
  /\ UNCHANGED <<config, row, single>>

ConcUpdateRow(r) ==
  /\ reqs[r].pc = "row"
  /\ LET q == reqs[r] IN
       \/ row' = [status |-> "done", compressed_size_bytes |-> q.bestBytes,
                  compression_ratio |-> Ratio(q.bestBytes, q.originalBytes),
                  overwrote |-> TRUE,
                  hit_target |-> (q.bestBytes <= TARGET_MAX_BYTES),
                  pass_used |-> (IF q.i < Len(levels) THEN q.i + 1 ELSE q.i)]
       \/ row' = row
  /\ reqs' = [reqs EXCEPT ![r].pc = "done"]
  /\ UNCHANGED <<config, stored, single>>

ConcNext ==
  \E r \in Reqs :
    \/ ConcDownload(r)
    \/ ConcDownloadFailed(r)
    \/ ConcPass(r)
    \/ ConcNoImprovement(r)
    \/ ConcUploadOk(r)
    \/ ConcUploadFails(r)
    \/ ConcUploadThrows(r)
    \/ ConcUpdateRow(r)

ConcSpec == ConcInit /\ [][ConcNext]_vars

\* ===================================================================== claims
Started == bestPath # NoPath
Returned == Started /\ pc \in {"ret", "row", "done"}
Resolved(k) == passes[k].outBytes # NoVal
Completed(k) == passes[k].outcome \in {"improved", "rejected"}
\* passes whose output was strictly smaller than the best at the time
Improving == {k \in 1..Len(passes) : Resolved(k) /\ passes[k].outBytes < passes[k].bestBefore}
MaxOf(S) == CHOOSE m \in S : \A n \in S : n <= m

\* C1: within a run of compressAdaptive bestBytes never increases from one
\* step to the next, and it is never larger than the byte size of the
\* original input.
C1_BestBytesNeverIncreases ==
  /\ [](Started => bestBytes <= originalBytes)
  /\ [][Started => bestBytes' <= bestBytes]_vars

\* a run has returned an improved best after a pass whose output was larger
\* than the best of the time
C1_Witness ==
  /\ Returned
  /\ bestBytes < originalBytes
  /\ \E k \in 1..Len(passes) : Resolved(k) /\ passes[k].outBytes > passes[k].bestBefore

\* a step that ends a pass of the ladder
PassEnds == pc \in {"gs", "stat"} /\ pc' \in {"gs", "ret"}

\* C2 (as stated): whenever bestBytes <= TARGET_MAX_BYTES at the end of pass
\* i, whatever the outcome of the pass, the loop is left with passUsed = i and
\* no later level is invoked; and for outputs [1000, 400, ...] with target 500
\* the run stops with passUsed = 2 and bestBytes = 400.
C2_Original ==
  /\ [][PassEnds /\ bestBytes' <= TARGET_MAX_BYTES
         => pc' = "ret" /\ passUsed' = i + 1 /\ i' = i]_vars
  /\ [](/\ TARGET_MAX_BYTES = 500 /\ Len(passes) >= 2
        /\ passes[1].outBytes = 1000 /\ passes[2].outBytes = 400
        => Returned /\ passUsed = 2 /\ bestBytes = 400 /\ Len(passes) = 2)

\* C2 (amended): whenever bestBytes <= TARGET_MAX_BYTES at the end of a pass
\* i that completed without a failure (improved or not improved), the loop is
\* left with passUsed = i and no level after i is ever invoked; a pass that
\* failed does not stop the loop, level i + 1 is invoked next if there is one.
\* For outputs [1000, 400, ...] of passes that complete, target 500 and an
\* original above 500, the run stops with passUsed = 2, bestBytes = 400 and
\* levels 3 and 4 are not invoked.
C2_EarlyStop ==
  /\ [][PassEnds /\ Completed(Len(passes))' /\ bestBytes' <= TARGET_MAX_BYTES
         => pc' = "ret" /\ passUsed' = i + 1 /\ i' = i]_vars
  /\ [][PassEnds /\ ~Completed(Len(passes))' /\ i + 1 < Len(levels)
         => pc' = "gs" /\ i' = i + 1]_vars
  /\ [](Returned => Len(passes) = passUsed)
  /\ [](/\ TARGET_MAX_BYTES = 500 /\ originalBytes > 500 /\ Len(passes) >= 2
        /\ passes[1].outBytes = 1000 /\ Completed(1)
        /\ passes[2].outBytes = 400 /\ Completed(2)
        => Returned /\ passUsed = 2 /\ bestBytes = 400 /\ Len(passes) = 2)

\* the run of the example has stopped after the second level
C2_Witness ==
  /\ pc = "ret"
  /\ TARGET_MAX_BYTES = 500 /\ originalBytes = 2000
  /\ Len(passes) = 2
  /\ passes[1].outBytes = 1000 /\ passes[2].outBytes = 400
  /\ passUsed = 2 /\ bestBytes = 400

\* C3: the storage upload is invoked if and only if the run's bestBytes is
\* strictly smaller than the original byte size; otherwise the storage is
\* not written, the stored object is unchanged and the response says
\* overwrote = false.
C3_UploadGate ==
  /\ pc \notin {"row", "done"} => uploads = 0
  /\ (Started /\ pc \in {"row", "done"}) => ((uploads = 1) <=> (bestBytes < originalBytes))
  /\ uploads <= 1
  /\ (Started /\ pc = "done" /\ bestBytes >= originalBytes)
       => /\ uploads = 0 /\ storeWrites = 0 /\ stored = originalBytes
          /\ res.code = 200 /\ res.ok /\ ~res.overwrote

\* a request has finished without upload although a pass produced an output
\* of exactly the original size
C3_Witness ==
  /\ pc = "done" /\ Started
  /\ uploads = 0
  /\ \E k \in 1..Len(passes) : passes[k].outBytes = originalBytes

\* C4: when the tool fails at every level, compressAdaptive returns the
\* original (bestBytes = original size, bestLevel "original", bestPath the
\* input path) with passUsed = 4, and the caller gets a success response.
C4_AllFailures ==
  (Returned /\ \A k \in 1..Len(passes) : passes[k].outcome = "failed")
    => /\ bestBytes = originalBytes
       /\ bestLevel = "original"
       /\ bestPath = InPath
       /\ passUsed = Len(levels) /\ Len(passes) = Len(levels)
       /\ pc # "row"
       /\ pc = "done" => res.code = 200 /\ res.ok

\* all four levels failed on an original that is already within the budget,
\* and the request was answered
C4_Witness ==
  /\ pc = "done" /\ Started
  /\ Len(passes) = 4
  /\ \A k \in 1..4 : passes[k].outcome = "failed"
  /\ originalBytes <= TARGET_MAX_BYTES
  /\ res.ok

\* C5 (as stated): on every ok:true response pass_used is the passUsed the
\* driver returned, compressed_bytes is its bestBytes and hit_target is
\* bestBytes <= TARGET_MAX_BYTES.
C5_SurfacedResult ==
  (pc = "done" /\ res.ok)
    => /\ res.pass_used = passUsed
       /\ res.compressed_bytes = bestBytes
       /\ res.hit_target = (bestBytes <= TARGET_MAX_BYTES)

\* C6: original 4,000,000, budget 900,000, baseline -> 2,500,000 and
\* aggr72 -> 900,000: the run ends after two passes with bestBytes 900,000,
\* bestLevel "aggr72", and the response reports hit_target and ratio 0.225.
C6_ReferenceScenario ==
  (/\ TARGET_MAX_BYTES = 900000 /\ originalBytes = 4000000 /\ Len(passes) >= 2
   /\ passes[1].outBytes = 2500000 /\ Completed(1)
   /\ passes[2].outBytes = 900000 /\ Completed(2))
    => /\ Returned
       /\ bestBytes = 900000 /\ bestLevel = "aggr72"
       /\ passUsed = 2 /\ Len(passes) = 2
       /\ {passes[k].level : k \in 1..Len(passes)} = {"baseline", "aggr72"}
       /\ (pc = "done" /\ res.ok)
            => /\ res.compressed_bytes = 900000 /\ res.pass_used = 2
               /\ res.hit_target /\ res.ratio = 225 /\ res.quality = "aggr72"

\* the reference scenario has been answered 200
C6_Witness ==
  /\ pc = "done" /\ res.ok
  /\ TARGET_MAX_BYTES = 900000 /\ originalBytes = 4000000
  /\ Len(passes) = 2
  /\ passes[1].outBytes = 2500000 /\ passes[2].outBytes = 900000

\* C7: a successful pass whose output is not smaller than the current best
\* (equal included) leaves bestPath, bestBytes and bestLevel unchanged and
\* its candidate file is deleted; outputs [1000, 1100, 1100] against an
\* original of 1000 leave bestBytes = 1000 and bestLevel = "original".
C7_StrictImprovement ==
  /\ [][(pc = "stat" /\ Exists(files, outPath) /\ files[outPath] >= bestBytes)
         => /\ bestPath' = bestPath /\ bestBytes' = bestBytes /\ bestLevel' = bestLevel
            /\ ~Exists(files', outPath)
            /\ DOMAIN files' = DOMAIN files \ {outPath}]_vars
  /\ [](/\ Started /\ originalBytes = 1000 /\ Len(passes) >= 3
        /\ passes[1].outBytes = 1000 /\ passes[2].outBytes = 1100
        /\ passes[3].outBytes = 1100
        /\ Len(passes) = 4 => passes[4].outBytes \in {NoVal, 1100}
        => bestBytes = 1000 /\ bestLevel = "original" /\ bestPath = InPath)

\* the run with outputs [1000, 1100, 1100, ...] against 1000 was answered
C7_Witness ==
  /\ pc = "done" /\ res.ok
  /\ originalBytes = 1000 /\ Len(passes) >= 3
  /\ passes[1].outBytes = 1000 /\ passes[2].outBytes = 1100
  /\ passes[3].outBytes = 1100
  /\ bestLevel = "original"

\* C8: if some pass produced an output strictly smaller than the best at the
\* time, bestLevel is the label of the last such pass and not "original";
\* bestLevel is "original" only if no pass strictly improved.
C8_BestLabel ==
  Started =>
    IF Improving = {}
    THEN bestLevel = "original"
    ELSE bestLevel = passes[MaxOf(Improving)].level /\ bestLevel # "original"

\* a run returned after two improving passes followed by a pass that did
\* not improve
C8_Witness ==
  /\ Returned
  /\ Cardinality(Improving) >= 2
  /\ MaxOf(Improving) < Len(passes)
  /\ Resolved(Len(passes))

\* C9 (as stated): when handleCompress has finished a request that wrote
\* temp files, none of them remains.
C9_NoTempFilesRemain ==
  (pc = "done" /\ created # {}) => DOMAIN files = {}

\* C10: a request whose bearer token differs from the secret, or any request
\* when the secret is empty, is answered 401 and causes no download, no
\* pass, no temp file, no upload and no row update.
C10_Unauthorized ==
  (SECRET = "" \/ Token(header) # SECRET)
    => /\ pc = "done" => res.code = 401
       /\ pc \in {"start", "done"}
       /\ downloads = 0 /\ passes = <<>> /\ created = {} /\ files = NoFiles
       /\ uploads = 0 /\ storeWrites = 0 /\ rowUpdates = 0 /\ row = NoRow

\* a well-formed request with an empty token was refused by a service with an
\* empty secret
C10_Witness ==
  /\ pc = "done" /\ res.code = 401
  /\ SECRET = "" /\ Token(header) = ""
  /\ BodyOk(body)

\* the input file is missing when compressAdaptive is entered
InputMissing == created # {} /\ ~Started /\ ~Exists(files, InPath)

\* C11 (as stated): when the byte budget is not configured or the input path
\* does not exist, no compressor pass is invoked and the caller gets a
\* failure.
C11_Original ==
  (envTarget = NoVal \/ InputMissing)
    => /\ passes = <<>> /\ ~Started
       /\ pc = "done" => ~res.ok

\* C11 (amended): when the input path does not exist the run fails before any
\* pass is invoked and the caller is answered 500 internal; a byte budget
\* that is not configured is replaced by the default 900000 and the run goes
\* on with it.
C11_FailFast ==
  /\ [](envTarget = NoVal => TARGET_MAX_BYTES = 900000)
  /\ [](InputMissing
          => /\ passes = <<>>
             /\ pc \in {"compress", "done"}
             /\ pc = "done" => res.code = 500 /\ res.error = "internal")
  /\ [][(pc = "compress" /\ ~Exists(files, InPath))
          => /\ pc' = "done" /\ res'.code = 500
             /\ passes' = <<>> /\ bestPath' = NoPath]_vars

\* a request of a service without configured budget was answered 500 because
\* its input file was gone on entry
C11_Witness ==
  /\ pc = "done" /\ InputMissing
  /\ envTarget = NoVal
  /\ res.code = 500

\* a step in which the tool invocation fails
ToolFails ==
  /\ pc = "gs"
  /\ Len(passes') = Len(passes) + 1
  /\ passes'[Len(passes')].outcome = "failed"

\* C12: when the tool fails at level i, nothing is raised to the caller,
\* bestPath, bestBytes and bestLevel stay what they were, and level i + 1 is
\* the next to be invoked unless i was the last level.
C12_ToolFailureNonFatal ==
  /\ [][ToolFails
          => /\ bestPath' = bestPath /\ bestBytes' = bestBytes /\ bestLevel' = bestLevel
             /\ res' = res
             /\ IF i + 1 < Len(levels) THEN pc' = "gs" /\ i' = i + 1 ELSE pc' = "ret"]_vars
  /\ [](\A k \in 1..(Len(passes) - 1) :
          passes[k].outcome = "failed"
            => /\ passes[k + 1].level = levels[k + 1]
               /\ passes[k + 1].input = passes[k].input
               /\ passes[k + 1].bestBefore = passes[k].bestBefore)

\* baseline improved, aggr72 failed and aggr50 is running on the baseline
\* output
C12_Witness ==
  /\ pc = "stat"
  /\ Len(passes) = 3
  /\ passes[1].outcome = "improved" /\ passes[2].outcome = "failed"
  /\ passes[3].level = "aggr50" /\ passes[3].input = BestPaths[1]
  /\ bestLevel = "baseline"

\* the artifact pass k should read: the renamed output of the last strictly
\* improving pass before k, or the original input
ExpectedInput(k) ==
  LET imp == {j \in 1..(k - 1) : Resolved(j) /\ passes[j].outBytes < passes[j].bestBefore}
  IN  IF imp = {} THEN InPath ELSE BestPaths[MaxOf(imp)]

\* C13 (as stated): every pass reads the output of the most recent strictly
\* improving pass, or the original input if none improved; never a
\* discarded candidate or a deleted file.
C13_Chaining ==
  /\ \A k \in 1..Len(passes) :
       /\ passes[k].input = ExpectedInput(k)
       /\ \A j \in 1..Len(OutPaths) : passes[k].input # OutPaths[j]
  /\ (Started /\ pc \in {"gs", "stat"}) => Exists(files, bestPath)

\* C14 (as stated): at the end of every iteration the only artifacts of the
\* run that exist are the original input and the current best; within an
\* iteration at most one other artifact exists.
C14_TempFileBound ==
  Started =>
    /\ pc \in {"gs", "ret"} => DOMAIN files \subseteq {InPath, bestPath}
    /\ pc = "stat" => Cardinality(DOMAIN files \ {InPath, bestPath}) <= 1

\* C15 (as stated): at the end of every iteration and at return, bestPath
\* names an existing file whose size is bestBytes and bestLevel is the level
\* that produced it ("original" iff bestPath is the input path).
C15_ResultCoherence ==
  (Started /\ pc \in {"gs", "ret"})
    => /\ Exists(files, bestPath)
       /\ files[bestPath] = bestBytes
       /\ (bestLevel = "original") <=> (bestPath = InPath)
       /\ bestPath # InPath
            => \E k \in 1..Len(levels) : bestPath = BestPaths[k] /\ bestLevel = levels[k]

\* C16: the levels are invoked in ladder order, each at most once and one
\* at a time; after a pass the next level is invoked unless the early stop
\* fired, so a run returns with fewer than four invocations only by the
\* early stop.
C16_LadderOrder ==
  /\ [](/\ Len(passes) <= Len(levels)
        /\ \A k \in 1..Len(passes) : passes[k].level = levels[k]
        /\ \A k \in 1..(Len(passes) - 1) : passes[k].outcome # "ran"
        /\ (Started /\ pc = "gs") => Len(passes) = i /\ i < Len(levels)
        /\ (Started /\ pc = "stat") => Len(passes) = i + 1
        /\ (Returned /\ Len(passes) < Len(levels))
             => Completed(Len(passes)) /\ bestBytes <= TARGET_MAX_BYTES)
  /\ [][(PassEnds /\ i + 1 < Len(levels)
          /\ ~(Completed(Len(passes))' /\ bestBytes' <= TARGET_MAX_BYTES))
          => pc' = "gs" /\ i' = i + 1]_vars

\* a run went through all four levels with a failure, an improvement and a
\* rejection on the way
C16_Witness ==
  /\ Returned /\ Len(passes) = 4
  /\ passes[1].outcome = "failed" /\ passes[2].outcome = "improved"
  /\ passes[3].outcome = "rejected" /\ passes[4].level = "ultra36"
  /\ bestBytes > TARGET_MAX_BYTES

\* C17: every run of compressAdaptive returns, after at most four
\* invocations, by early stop or by exhaustion of the ladder, and invokes
\* nothing after it returned.
C17_Termination ==
  /\ (Started /\ pc \in {"gs", "stat"}) ~> Returned
  /\ [](Len(passes) <= Len(levels))
  /\ [](Returned => bestBytes <= TARGET_MAX_BYTES \/ Len(passes) = Len(levels))
  /\ [][Returned => passes' = passes /\ pc' \in {"row", "done"}]_vars

\* a run returned by exhaustion: the first and the last pass improved and
\* the best is still above the budget
C17_Witness ==
  /\ pc = "ret" /\ Len(passes) = 4
  /\ passes[1].outcome = "improved" /\ passes[4].outcome = "improved"
  /\ bestBytes > TARGET_MAX_BYTES


\* C18 (as stated): for any interleaving of two requests on the same object
\* no upload replaces the stored object with a larger one: the size of the
\* stored object never increases.
C18_StoredNeverIncreases == [][stored' <= stored]_vars

\* C19 (as stated): updatePdfStorageRow is invoked at most once, only after
\* the upload of a strictly smaller artifact returned without error, and
\* never on the 401, 400, download_failed, no-improvement, upload_failed and
\* internal paths.
C19_StatusRow ==
  /\ rowUpdates <= 1
  /\ rowUpdates = 1
       => /\ uploads = 1 /\ storeWrites = 1
          /\ stored < originalBytes
          /\ pc = "done" /\ res.code = 200 /\ res.overwrote
  /\ (pc = "done" /\ ~(res.ok /\ res.overwrote)) => rowUpdates = 0 /\ row = NoRow

\* the passes whose argument list carries downsampling parameters
Downsampled == {k \in 1..Len(passes) : passes[k].args.downsampled}

FairSpec == Spec /\ WF_vars(Next)
====
